---- MODULE Spec2Model ----
(***************************************************************************)
(* requests-ratelimiter: LimiterMixin (requests_ratelimiter.py).           *)
(*                                                                         *)
(* A session/adapter whose send() enters limiter.ratelimit(bucket name,    *)
(* delay=True, max_delay) before handing the request to the underlying     *)
(* transport, and which fills the bucket with "filler" requests when the   *)
(* response carries a limit-exceeded status.                               *)
(*                                                                         *)
(* The limiter itself (pyrate_limiter) is not part of the repository; it   *)
(* is modelled from the interface of section 6 of the specification: a     *)
(* bucket is the log of the timestamps recorded for one key, acquisition   *)
(* checks every rate's trailing window and records one event, a full       *)
(* window yields BucketFull with the time until its oldest event leaves.   *)
(* Time is the limiter's clock, in whole units.                            *)
(***************************************************************************)
EXTENDS Integers, Sequences, FiniteSets, TLC

\* ------------------------------------------------------------------ bounds
\* The clock stops at MaxTime; at most MaxSends calls of send() are started.
MaxTime == 2
MaxSends == 3

\* ------------------------------------------------------------------ inputs
Instances == {1, 2}
AllThreads == {1, 2}

\* The targets of the requests: the parts a URL is written from.
Targets ==
  { [userinfo |-> "",  host |-> "a", path |-> "x"],
    [userinfo |-> "u", host |-> "a", path |-> "y"],
    [userinfo |-> "",  host |-> "b", path |-> "x"] }

\* request.url of a request to target t, as a string of tokens:
\* http://[userinfo@]host/path
url(t) ==
  <<"http", ":", "//">>
    \o (IF t.userinfo = "" THEN <<>> ELSE <<t.userinfo, "@">>)
    \o <<t.host, "/", t.path>>

\* Rate lists a Limiter accepts (limits and intervals strictly ascending).
\* float: the limit is a Python float (per_second, burst, ... are floats).
Rate(l, i, f) == [limit |-> l, interval |-> i, float |-> f]
RateLists ==
  { <<Rate(2, 2, FALSE)>>,
    <<Rate(2, 2, TRUE)>>,
    <<Rate(1, 1, FALSE), Rate(2, 2, FALSE)>> }

\* max_delay=None, the default: the limiter holds it as 0, "no ceiling".
NoMaxDelay == 0
MaxDelays == {NoMaxDelay, 1}

Statuses == {200, 429, 503}
StatusSets == { {429}, {429, 503} }
TransportErrors == {"ConnectionError"}

UUIDs == <<"uuid-1", "uuid-2">>

\* pyrate_limiter.Duration, in seconds.
SECOND == 1
MINUTE == 60
HOUR == 3600
DAY == 86400
MONTH == 2592000

\* Values of the constructor's rate arguments; 0 is the default of each
\* per_* argument and 1 the default of burst.
PerSeconds == {0, 1, 2}
PerMinutes == {0, 30}
PerHours == {0, 100}
PerDays == {0, 1000}
PerMonths == {0, 10000}
Bursts == {1, 2, 60, 120}

VARIABLES
  kwargs,          \* the rate arguments of __init__, and whether it has run
  now,             \* limiter.time_function()
  rates,           \* limiter._rates
  max_delay,       \* self.max_delay
  per_host,        \* self.per_host
  limit_statuses,  \* self.limit_statuses
  _default_bucket, \* self._default_bucket, per instance
  bucket_group,    \* limiter.bucket_group: key -> recorded timestamps
  threads,         \* the threads that call send()
  call,            \* per thread: the position and locals of its send() call
  sends,           \* number of send() calls started
  wire             \* history: key -> times the transport send was invoked

vars == <<kwargs, now, rates, max_delay, per_host, limit_statuses,
          _default_bucket, bucket_group, threads, call, sends, wire>>

config == <<kwargs, rates, max_delay, per_host, limit_statuses, _default_bucket,
            threads>>

\* ------------------------------------------------------- urllib.parse
\* _splitnetloc: the netloc runs up to the first of "/", "?", "#".
RECURSIVE _splitnetloc(_, _)
_splitnetloc(s, i) ==
  IF i > Len(s) \/ s[i] \in {"/", "?", "#"}
    THEN <<>>
    ELSE <<s[i]>> \o _splitnetloc(s, i + 1)

\* urlparse(u).netloc: what follows "scheme://"; empty without "//".
netloc(s) ==
  IF Len(s) >= 3 /\ s[2] = ":" /\ s[3] = "//"
    THEN _splitnetloc(s, 4)
    ELSE <<>>

\* str(uuid4()) of the i-th constructed instance: a fresh identifier.
uuid4(i) == <<UUIDs[i]>>

\* ------------------------------------------------------- LimiterMixin
\* A shared constant instead of the per-instance identifier.
_bucket_name_shared(i, u) ==
  IF per_host THEN netloc(u) ELSE <<"default">>

\* _bucket_name: the bucket name of a request with URL u sent through instance i.
_bucket_name(i, u) ==
  IF per_host THEN netloc(u) ELSE _default_bucket[i]

\* ------------------------------------------------------- limiter (section 6)
Bucket(k) == IF k \in DOMAIN bucket_group THEN bucket_group[k] ELSE <<>>

\* bucket.put(t) on the bucket of key k.
put(bg, k, t) ==
  [x \in DOMAIN bg \cup {k} |->
     IF x = k THEN (IF k \in DOMAIN bg THEN bg[k] ELSE <<>>) \o <<t>>
              ELSE bg[x]]

\* The bucket of key k exists (created on first use).
touch(bg, k) ==
  [x \in DOMAIN bg \cup {k} |-> IF x \in DOMAIN bg THEN bg[x] ELSE <<>>]

InWindow(b, time) == {n \in 1..Len(b) : b[n] > time}

\* bucket.inspect_expired_items(time)[0]: the events recorded after `time`.
item_count(b, time) == Cardinality(InWindow(b, time))

Min(S) == CHOOSE x \in S : \A y \in S : x <= y

\* bucket.inspect_expired_items(time)[1]: the time until the oldest such
\* event leaves the window.
remaining_time(b, time) ==
  IF InWindow(b, time) = {} THEN 0
  ELSE Min({b[n] : n \in InWindow(b, time)}) - time

\* The rates, in order, whose window is full at time t.
FullRates(b, t) ==
  {n \in 1..Len(rates) : item_count(b, t - rates[n].interval) >= rates[n].limit}

\* Limiter.try_acquire: 0 when an event may be recorded at time t, else the
\* remaining time of the BucketFull raised for the first full rate.
try_acquire(b, t) ==
  IF FullRates(b, t) = {} THEN 0
  ELSE remaining_time(b, t - rates[Min(FullRates(b, t))].interval)

\* ratelimit(..., delay, max_delay): whether a BucketFull with this remaining
\* time is re-raised instead of slept on.
reraise(delay, md, delay_time) ==
  ~delay \/ (md # NoMaxDelay /\ delay_time > md)

\* The keyword arguments send() passes to limiter.ratelimit.
ratelimit_delay == TRUE

\* max_delay left out of the call.
ratelimit_max_delay_unset == NoMaxDelay

ratelimit_max_delay == max_delay

\* Only 429 counts, whatever was configured.
limit_exceeded_429(s) == s = 429

\* response.status_code in self.limit_statuses
limit_exceeded(s) == s \in limit_statuses

\* The limit itself, whatever the bucket already holds.
filler_count_all(limit, cnt) == limit

\* len(range(limit - cnt)): the number of filler requests _fill_bucket adds.
filler_count(limit, cnt) == IF limit - cnt > 0 THEN limit - cnt ELSE 0

\* range(rate.limit - item_count) raises TypeError for a float limit.
range_raises(rate) == rate.float

\* --------------------------------------------------------- __init__
\* The dict display of __init__, as its key/value pairs in source order.
rate_items(kw) ==
  << <<SECOND * kw.burst, kw.per_second * kw.burst>>,
     <<MINUTE, kw.per_minute>>,
     <<HOUR, kw.per_hour>>,
     <<DAY, kw.per_day>>,
     <<MONTH, kw.per_month>> >>

\* A dict built from the first n pairs: a key seen before keeps its place
\* and takes the later value; a new key goes to the end.
RECURSIVE dict(_, _)
dict(pairs, n) ==
  IF n = 0 THEN <<>>
  ELSE LET d == dict(pairs, n - 1)
           same == {j \in 1..Len(d) : d[j][1] = pairs[n][1]}
       IN  IF same = {} THEN Append(d, pairs[n])
           ELSE [j \in 1..Len(d) |-> IF j \in same THEN pairs[n] ELSE d[j]]

\* if limit
truthy(p) == p[2] # 0

\* rates = [RequestRate(limit, interval) for interval, limit in {...}.items()
\*          if limit]
RequestRates(kw) ==
  LET items == SelectSeq(dict(rate_items(kw), Len(rate_items(kw))), truthy)
  IN  [n \in 1..Len(items) |-> Rate(items[n][2], items[n][1], FALSE)]

\* The rate arguments at their defaults: the limiter is passed in.
NoKwargs ==
  [per_second |-> 0, per_minute |-> 0, per_hour |-> 0, per_day |-> 0,
   per_month |-> 0, burst |-> 1, built |-> TRUE]

\* ------------------------------------------------------------- state
NoCall ==
  [pc |-> "idle", started |-> FALSE, inst |-> 1,
   target |-> [userinfo |-> "", host |-> "a", path |-> "x"],
   key |-> <<>>, issued |-> 0, ahead |-> 0, burst |-> FALSE,
   waited |-> FALSE, last_wait |-> 0, invoked |-> 0, wake |-> 0,
   outcome |-> "none", status |-> 0, returned |-> 0,
   error |-> "", raised |-> "",
   admit_at |-> 0, admit_pre |-> <<>>,
   fill_ran |-> FALSE, fill_now |-> 0, fill_count |-> 0,
   fill_pre |-> <<>>, fill_todo |-> 0]

Wire(k) == IF k \in DOMAIN wire THEN wire[k] ELSE <<>>

Init ==
  /\ kwargs = NoKwargs
  /\ now = 0
  /\ rates \in RateLists
  /\ max_delay \in MaxDelays
  /\ per_host \in BOOLEAN
  /\ limit_statuses \in StatusSets
  /\ _default_bucket = [i \in Instances |-> uuid4(i)]
  /\ bucket_group = <<>>
  /\ threads = {1}
  /\ call = [c \in AllThreads |-> NoCall]
  /\ sends = 0
  /\ wire = <<>>

\* ------------------------------------------------------------- send()
\* The transport send runs although the limiter raised or asked to wait.
EnterUngated(c, r) ==
  /\ bucket_group' = put(bucket_group, r.key, now)
  /\ wire' = put(wire, r.key, now)
  /\ call' = [call EXCEPT ![c] =
       [r EXCEPT !.pc = "transport", !.invoked = @ + 1,
                 !.last_wait = try_acquire(Bucket(r.key), now),
                 !.admit_at = now, !.admit_pre = Bucket(r.key)]]

\* with self.limiter.ratelimit(name, delay=True, max_delay=self.max_delay):
\* one try_acquire of delayed_acquire; on success the body starts and the
\* underlying send is invoked.
Enter(c, r) ==
  LET k == r.key
      b == Bucket(k)
      delay_time == try_acquire(b, now)
  IN  IF delay_time = 0
        THEN /\ bucket_group' = put(bucket_group, k, now)
             /\ wire' = put(wire, k, now)
             /\ call' = [call EXCEPT ![c] =
                  [r EXCEPT !.pc = "transport", !.invoked = @ + 1,
                            !.last_wait = 0,
                            !.admit_at = now, !.admit_pre = b]]
        ELSE /\ bucket_group' = touch(bucket_group, k)
             /\ wire' = wire
             /\ IF reraise(ratelimit_delay, ratelimit_max_delay, delay_time)
                  THEN call' = [call EXCEPT ![c] =
                         [r EXCEPT !.pc = "done", !.outcome = "raised",
                                   !.raised = "BucketFull",
                                   !.last_wait = delay_time]]
                  ELSE call' = [call EXCEPT ![c] =
                         [r EXCEPT !.pc = "sleep", !.waited = TRUE,
                                   !.last_wait = delay_time,
                                   !.wake = now + delay_time]]

\* send(request): a thread calls send() with a request to target t through
\* instance i, and makes its first attempt to acquire.
Send(c, i, t) ==
  /\ c \in threads
  /\ call[c].pc = "idle"
  /\ sends < MaxSends
  /\ sends' = sends + 1
  /\ LET k == _bucket_name(i, url(t))
     IN  Enter(c, [NoCall EXCEPT
              !.started = TRUE, !.inst = i, !.target = t, !.key = k,
              !.issued = now,
              !.ahead = Len(Bucket(k)),
              !.burst = /\ Bucket(k) = Wire(k)
                        /\ \A n \in 1..Len(Bucket(k)) : Bucket(k)[n] = now])
  /\ UNCHANGED <<now, config>>

\* sleep(delay_time) is over: delayed_acquire tries again.
Retry(c) ==
  /\ c \in threads
  /\ call[c].pc = "sleep"
  /\ now >= call[c].wake
  /\ Enter(c, call[c])
  /\ UNCHANGED <<now, config, sends>>

\* The filler requests go to every bucket of the group.
put_n_all(bg, k, t, n) ==
  [x \in DOMAIN bg |-> bg[x] \o [m \in 1..n |-> t]]

\* bucket.put(t), n times, on the bucket of key k.
RECURSIVE put_n(_, _, _, _)
put_n(bg, k, t, n) == IF n = 0 THEN bg ELSE put_n(put(bg, k, t), k, t, n - 1)

\* _fill_bucket(request) and the rest of send() after it. It reads the
\* clock, the first rate and the bucket's count over that rate's interval,
\* and puts the filler requests; range() of a float raises TypeError.
_fill_bucket(c, s) ==
  LET r == call[c]
      rate == rates[1]
      b == bucket_group[r.key]
      cnt == item_count(b, now - rate.interval)
      f == [r EXCEPT !.status = s, !.fill_ran = TRUE, !.fill_now = now,
                     !.fill_count = cnt, !.fill_pre = b]
  IN  IF range_raises(rate)
        THEN /\ bucket_group' = bucket_group
             /\ call' = [call EXCEPT ![c] =
                  [f EXCEPT !.pc = "done", !.outcome = "raised",
                            !.raised = "TypeError"]]
        ELSE /\ bucket_group' =
                  put_n(bucket_group, r.key, now, filler_count(rate.limit, cnt))
             /\ call' = [call EXCEPT ![c] =
                  [f EXCEPT !.pc = "done", !.outcome = "response",
                            !.returned = s]]

\* A limit status makes send() send the request once more.
TransportReturnResend(c, s) ==
  /\ c \in threads
  /\ call[c].pc = "transport"
  /\ bucket_group' = bucket_group
  /\ call' = [call EXCEPT ![c].pc = IF limit_exceeded(s) THEN "transport" ELSE "done",
                          ![c].invoked = IF limit_exceeded(s) THEN @ + 1 ELSE @,
                          ![c].status = s,
                          ![c].returned = IF limit_exceeded(s) THEN 0 ELSE s,
                          ![c].outcome = IF limit_exceeded(s) THEN "none" ELSE "response"]
  /\ UNCHANGED <<now, config, sends, wire>>

\* response = super().send(request): the underlying send returns a response
\* with status s; a limit status fills the bucket before send() returns it.
TransportReturn(c, s) ==
  /\ c \in threads
  /\ call[c].pc = "transport"
  /\ IF limit_exceeded(s)
       THEN _fill_bucket(c, s)
       ELSE /\ bucket_group' = bucket_group
            /\ call' = [call EXCEPT ![c].pc = "done", ![c].status = s,
                                    ![c].returned = s,
                                    ![c].outcome = "response"]
  /\ UNCHANGED <<now, config, sends, wire>>

\* The underlying send raises e twice: the request is sent again.
TransportRaiseRetry(c, e) ==
  /\ c \in threads
  /\ call[c].pc = "transport"
  /\ call' = [call EXCEPT ![c].pc = "done", ![c].outcome = "raised",
                          ![c].error = e, ![c].raised = e,
                          ![c].invoked = @ + 1]
  /\ UNCHANGED <<now, config, bucket_group, sends, wire>>

\* The underlying send raises e and the acquired event is taken back.
TransportRaiseRelease(c, e) ==
  /\ c \in threads
  /\ call[c].pc = "transport"
  /\ call' = [call EXCEPT ![c].pc = "done", ![c].outcome = "raised",
                          ![c].error = e, ![c].raised = e]
  /\ bucket_group' = [bucket_group EXCEPT ![call[c].key] =
                        SubSeq(@, 1, Len(@) - 1)]
  /\ UNCHANGED <<now, config, sends, wire>>

\* The underlying send raises e: it leaves send() through the with block.
TransportRaise(c, e) ==
  /\ c \in threads
  /\ call[c].pc = "transport"
  /\ call' = [call EXCEPT ![c].pc = "done", ![c].outcome = "raised",
                          ![c].error = e, ![c].raised = e]
  /\ UNCHANGED <<now, config, bucket_group, sends, wire>>

\* The caller has the response, or the exception: the call is over.
Return(c) ==
  /\ c \in threads
  /\ call[c].pc = "done"
  /\ call' = [call EXCEPT ![c] = NoCall]
  /\ UNCHANGED <<now, config, bucket_group, sends, wire>>

\* The limiter's clock advances.
Tick ==
  /\ now < MaxTime
  /\ now' = now + 1
  /\ UNCHANGED <<config, bucket_group, call, sends, wire>>

Next ==
  \/ \E c \in AllThreads, i \in Instances, t \in Targets : Send(c, i, t)
  \/ \E c \in AllThreads : Retry(c)
  \/ \E c \in AllThreads, s \in Statuses : TransportReturn(c, s)
  \/ \E c \in AllThreads, e \in TransportErrors : TransportRaise(c, e)
  \/ \E c \in AllThreads : Return(c)
  \/ Tick

Spec == Init /\ [][Next]_vars

\* ------------------------------------- several threads, one instance
\* Two threads call send() on the shared instance.
ConcInit ==
  /\ kwargs = NoKwargs
  /\ now = 0
  /\ rates \in RateLists
  /\ max_delay \in MaxDelays
  /\ per_host \in BOOLEAN
  /\ limit_statuses = {429}
  /\ _default_bucket = [i \in Instances |-> uuid4(i)]
  /\ bucket_group = <<>>
  /\ threads = AllThreads
  /\ call = [c \in AllThreads |-> NoCall]
  /\ sends = 0
  /\ wire = <<>>

\* _fill_bucket up to its loop: the thread has read the clock, the first
\* rate and the bucket's count, and has range(rate.limit - item_count)
\* puts to make; range() of a float raises TypeError.
FillInspect(c, s) ==
  /\ c \in threads
  /\ call[c].pc = "transport"
  /\ limit_exceeded(s)
  /\ LET r == call[c]
         rate == rates[1]
         b == bucket_group[r.key]
         cnt == item_count(b, now - rate.interval)
         f == [r EXCEPT !.status = s, !.fill_ran = TRUE, !.fill_now = now,
                        !.fill_count = cnt, !.fill_pre = b]
     IN  call' = [call EXCEPT ![c] =
           IF range_raises(rate)
             THEN [f EXCEPT !.pc = "done", !.outcome = "raised",
                            !.raised = "TypeError"]
             ELSE [f EXCEPT !.pc = "fill",
                            !.fill_todo = filler_count(rate.limit, cnt)]]
  /\ UNCHANGED <<now, config, bucket_group, sends, wire>>

\* One turn of the loop: bucket.put(now), with the now read before it.
FillPut(c) ==
  /\ c \in threads
  /\ call[c].pc = "fill"
  /\ call[c].fill_todo > 0
  /\ bucket_group' = put(bucket_group, call[c].key, call[c].fill_now)
  /\ call' = [call EXCEPT ![c].fill_todo = @ - 1]
  /\ UNCHANGED <<now, config, sends, wire>>

\* The loop is over: send() returns the response.
FillReturn(c) ==
  /\ c \in threads
  /\ call[c].pc = "fill"
  /\ call[c].fill_todo = 0
  /\ call' = [call EXCEPT ![c].pc = "done", ![c].outcome = "response",
                          ![c].returned = call[c].status]
  /\ UNCHANGED <<now, config, bucket_group, sends, wire>>

ConcNext ==
  \/ \E c \in AllThreads, t \in Targets : Send(c, 1, t)
  \/ \E c \in AllThreads : Retry(c)
  \/ \E c \in AllThreads, s \in Statuses :
       ~limit_exceeded(s) /\ TransportReturn(c, s)
  \/ \E c \in AllThreads, s \in Statuses : FillInspect(c, s)
  \/ \E c \in AllThreads : FillPut(c)
  \/ \E c \in AllThreads : FillReturn(c)
  \/ \E c \in AllThreads, e \in TransportErrors : TransportRaise(c, e)
  \/ \E c \in AllThreads : Return(c)
  \/ Tick

ConcSpec == ConcInit /\ [][ConcNext]_vars

\* ------------------------------------------- __init__ on its own
\* Before __init__: the rate arguments are chosen, nothing is built.
CtorInit ==
  /\ kwargs \in [per_second : PerSeconds, per_minute : PerMinutes,
                  per_hour : PerHours, per_day : PerDays,
                  per_month : PerMonths, burst : Bursts, built : {FALSE}]
  /\ now = 0
  /\ rates = <<>>
  /\ max_delay = NoMaxDelay
  /\ per_host = TRUE
  /\ limit_statuses = {429}
  /\ _default_bucket = [i \in Instances |-> uuid4(i)]
  /\ bucket_group = <<>>
  /\ threads = {1}
  /\ call = [c \in AllThreads |-> NoCall]
  /\ sends = 0
  /\ wire = <<>>

\* __init__ builds the rate list from its arguments.
Construct ==
  /\ ~kwargs.built
  /\ rates' = RequestRates(kwargs)
  /\ kwargs' = [kwargs EXCEPT !.built = TRUE]
  /\ UNCHANGED <<now, max_delay, per_host, limit_statuses, _default_bucket,
                 bucket_group, threads, call, sends, wire>>

CtorNext == Construct

CtorSpec == CtorInit /\ [][CtorNext]_vars

\* ------------------------------------------------------------- claims
Calls == {c \in AllThreads : call[c].started}

SingleRate == Len(rates) = 1

\* The events of b recorded in the window (t - interval, t].
CountIn(b, t, interval) ==
  Cardinality({n \in 1..Len(b) : t - interval < b[n] /\ b[n] <= t})

\* No filler request was ever put in the bucket of k: its events are the
\* admitted sends.
NoFill(k) == k \in DOMAIN bucket_group /\ Bucket(k) = Wire(k)

\* C1: when an attempt to acquire finds that the wait it needs is longer
\* than the configured max_delay, send() ends with BucketFull, and a send()
\* that ended with BucketFull never invoked the underlying transport send.
C1_BucketFullBeforeSend ==
  \A c \in Calls :
    /\ (max_delay # NoMaxDelay /\ call[c].last_wait > max_delay)
         => /\ call[c].pc = "done"
            /\ call[c].raised = "BucketFull"
    /\ call[c].raised = "BucketFull"
         => /\ call[c].invoked = 0
            /\ call[c].status = 0

C1_Witness ==
  \E c \in Calls :
    /\ call[c].pc = "done"
    /\ call[c].raised = "BucketFull"
    /\ max_delay # NoMaxDelay
    /\ call[c].last_wait > max_delay
    /\ call[c].invoked = 0

\* C2: with a single rate of L per T and no filler in the bucket of a key,
\* the transport was invoked at most L times for that key inside any window
\* of length T; a send that found the window full has not reached the
\* transport unless it waited for an event to leave the window.
C2_AtMostLimitPerWindow ==
  SingleRate =>
    /\ \A k \in DOMAIN wire :
         NoFill(k) =>
           \A t \in 0..MaxTime :
             CountIn(Wire(k), t, rates[1].interval) <= rates[1].limit
    /\ \A c \in Calls :
         (NoFill(call[c].key) /\ call[c].invoked > 0
            /\ CountIn(call[c].admit_pre, call[c].issued, rates[1].interval)
                 >= rates[1].limit)
           => /\ call[c].waited
              /\ call[c].admit_at > call[c].issued

C2_Witness ==
  \E c \in Calls :
    /\ SingleRate
    /\ NoFill(call[c].key)
    /\ call[c].pc = "transport"
    /\ call[c].waited
    /\ Len(Wire(call[c].key)) = rates[1].limit + 1

\* C3: with a single rate of L, a send issued at an instant at which the
\* bucket of its key holds only sends of that same instant (none before,
\* no filler) is admitted at once and reaches the transport when fewer than
\* L went before it; the one after L of them waits or ends with BucketFull.
C3_FirstLimitSendsAtOnce ==
  \A c \in Calls :
    (SingleRate /\ call[c].burst) =>
      /\ call[c].ahead < rates[1].limit
           => /\ ~call[c].waited
              /\ call[c].invoked = 1
              /\ call[c].admit_at = call[c].issued
              /\ call[c].raised # "BucketFull"
      /\ call[c].ahead = rates[1].limit
           => \/ call[c].raised = "BucketFull" /\ call[c].invoked = 0
              \/ call[c].waited
      /\ call[c].ahead <= rates[1].limit

C3_Witness ==
  \E c \in Calls :
    /\ SingleRate
    /\ call[c].burst
    /\ call[c].ahead = rates[1].limit
    /\ call[c].pc = "sleep"
    /\ Wire(call[c].key) = [n \in 1..rates[1].limit |-> call[c].issued]

\* C4: in sequential use, whatever the transport answers (a limit status on
\* every call included), no bucket ever holds more events inside the
\* trailing window of the first rate's interval than that rate's limit; a
\* completed fill leaves exactly the limit in the window it counted.
C4_FillNeverOvershoots ==
  /\ \A k \in DOMAIN bucket_group :
       item_count(bucket_group[k], now - rates[1].interval) <= rates[1].limit
  /\ \A c \in Calls :
       (call[c].pc = "done" /\ call[c].fill_ran /\ call[c].outcome = "response")
         => item_count(bucket_group[call[c].key],
                       call[c].fill_now - rates[1].interval) = rates[1].limit

C4_Witness ==
  \E c \in Calls :
    /\ call[c].pc = "done"
    /\ call[c].fill_ran
    /\ call[c].outcome = "response"
    /\ sends = MaxSends
    /\ Len(bucket_group[call[c].key]) > Len(call[c].fill_pre)
    /\ Len(bucket_group[call[c].key]) > rates[1].limit
    /\ item_count(bucket_group[call[c].key], now - rates[1].interval)
         = rates[1].limit

\* The filler requests a fill recorded at time t adds for a count of cnt.
Fillers(cnt, t) == [n \in 1..(rates[1].limit - cnt) |-> t]

Filled == {c \in Calls : call[c].pc = "done" /\ call[c].fill_ran}

\* C5: a limit-exceeded response met with c events in the trailing window
\* of the first rate, c below its limit L, adds exactly L - c events to the
\* bucket of the request's key, each stamped with the limiter time of the
\* fill.
C5_FillAddsDeficit ==
  \A c \in Filled :
    call[c].fill_count < rates[1].limit
      => bucket_group[call[c].key]
           = call[c].fill_pre \o Fillers(call[c].fill_count, call[c].fill_now)

\* C6: a limit-exceeded response met with the window of the first rate
\* already at or above its limit adds no event and does not fail: send()
\* returns the response and the bucket is as the fill found it.
C6_FillNoOpWhenCaughtUp ==
  \A c \in Filled :
    call[c].fill_count >= rates[1].limit
      => /\ call[c].outcome = "response"
         /\ call[c].raised = ""
         /\ bucket_group[call[c].key] = call[c].fill_pre

\* C7: the fill runs for a response exactly when its status is one of
\* limit_statuses, and has run when send() is about to return it; for any
\* other status the bucket of the key holds, after send(), what it held
\* before plus the one event of the acquisition.
C7_FillIffLimitStatus ==
  \A c \in Calls :
    /\ call[c].fill_ran => call[c].status \in limit_statuses
    /\ (call[c].pc = "done" /\ call[c].status # 0)
         => (call[c].fill_ran <=> call[c].status \in limit_statuses)
    /\ (call[c].pc = "done" /\ call[c].status # 0
          /\ call[c].status \notin limit_statuses)
         => /\ call[c].outcome = "response"
            /\ bucket_group[call[c].key]
                 = Append(call[c].admit_pre, call[c].admit_at)

C7_Witness ==
  \E c \in Calls :
    /\ call[c].pc = "done"
    /\ call[c].status = 503
    /\ call[c].fill_ran
    /\ call[c].outcome = "response"
    /\ bucket_group[call[c].key] # Append(call[c].admit_pre, call[c].admit_at)

\* C8: with per_host, a request's key equals the key of any other request
\* exactly when the two go to the same host.
C8_KeyIsHost ==
  per_host =>
    \A c \in Calls : \A i \in Instances, t \in Targets :
      (call[c].key = _bucket_name(i, url(t)))
        <=> (call[c].target.host = t.host)

\* C9: without per_host, every request through an instance gets the
\* identifier generated when the instance was constructed, whatever its
\* URL, and no request through another instance gets that key.
C9_OneKeyPerInstance ==
  ~per_host =>
    /\ _default_bucket = [i \in Instances |-> uuid4(i)]
    /\ DOMAIN bucket_group \subseteq {uuid4(i) : i \in Instances}
    /\ \A c \in Calls : \A i \in Instances, t \in Targets :
         /\ call[c].key = uuid4(call[c].inst)
         /\ (call[c].key = _bucket_name(i, url(t))) <=> (i = call[c].inst)

C9_Witness ==
  /\ ~per_host
  /\ Cardinality(DOMAIN bucket_group) = Cardinality(Instances)
  /\ \E c \in Calls : call[c].target.userinfo # "" /\ call[c].inst # 1

\* C10: an error raised by the underlying send leaves send() as it is;
\* no fill has run, the transport was invoked once, and the bucket holds
\* what it held at the acquisition plus its one event.
C10_TransportErrorPropagates ==
  \A c \in Calls :
    call[c].error # ""
      => /\ call[c].pc = "done"
         /\ call[c].outcome = "raised"
         /\ call[c].raised = call[c].error
         /\ ~call[c].fill_ran
         /\ call[c].status = 0
         /\ call[c].invoked = 1
         /\ bucket_group[call[c].key]
              = Append(call[c].admit_pre, call[c].admit_at)

C10_Witness ==
  \E c \in Calls :
    /\ call[c].pc = "done"
    /\ call[c].error \in TransportErrors
    /\ call[c].raised = call[c].error
    /\ call[c].invoked = 1

\* C11: a call of send() invokes the underlying send at most once, and
\* exactly once from the moment it has acquired; a limit status runs the
\* fill and no second invocation, and the response send() returns has the
\* status the transport produced.
C11_NoRetry ==
  \A c \in Calls :
    /\ call[c].invoked <= 1
    /\ call[c].pc \in {"transport"} => call[c].invoked = 1
    /\ call[c].pc = "sleep" => call[c].invoked = 0
    /\ call[c].status # 0 => /\ call[c].pc = "done"
                             /\ call[c].invoked = 1
    /\ call[c].outcome = "response"
         => /\ call[c].returned = call[c].status
            /\ call[c].status \in Statuses
    /\ call[c].returned # 0 => call[c].outcome = "response"

C11_Witness ==
  \E c \in Calls :
    /\ call[c].pc = "done"
    /\ call[c].fill_ran
    /\ call[c].outcome = "response"
    /\ call[c].returned \in limit_statuses
    /\ call[c].invoked = 1
    /\ call[c].waited

\* A call that has received a limit status and is about to return or raise.
Limited == {c \in Calls : call[c].pc = "done" /\ call[c].status \in limit_statuses}

\* C12: after a send on key k has received a limit status, the limiter
\* does not admit at once a send on k at any time before the smallest
\* interval has elapsed since that response: try_acquire on the bucket
\* that send will find asks for a wait (slept on, or re-raised as
\* BucketFull beyond max_delay).
C12_FillDelaysNextSend ==
  \A c \in Limited :
    \A t \in now..(call[c].fill_now + rates[1].interval - 1) :
      try_acquire(Bucket(call[c].key), t) # 0

\* __init__ has run and built at least one rate.
Built == kwargs.built /\ rates # <<>>

\* C13: whenever the constructor's arguments yield at least one rate, the
\* list it builds is in strictly ascending order of interval, so rates[1]
\* has the smallest interval of all.
C13_RatesAscending ==
  Built =>
    /\ \A m, n \in 1..Len(rates) : m < n => rates[m].interval < rates[n].interval
    /\ \A n \in 1..Len(rates) : rates[1].interval <= rates[n].interval

\* C14: once the transport has returned a response, send() completes with
\* that response in the same step, whatever the bucket holds: it does not
\* wait again, and the fill, when it runs, ends without raising.
C14_OnlyAcquisitionBlocks ==
  \A c \in Calls :
    call[c].status # 0
      => /\ call[c].pc = "done"
         /\ call[c].outcome = "response"
         /\ call[c].raised = ""

\* C15: with several threads sending through one instance, when two of
\* them have received a limit response on the same key and their fills have
\* read the same bucket contents, the window of the first rate never holds
\* more events than that rate's limit, however their puts interleave.
C15_ConcurrentFillsNeverOvershoot ==
  \A c1, c2 \in Calls :
    ( /\ c1 # c2
      /\ call[c1].fill_ran /\ call[c2].fill_ran
      /\ call[c1].key = call[c2].key
      /\ call[c1].fill_pre = call[c2].fill_pre )
      => item_count(Bucket(call[c1].key), now - rates[1].interval)
           <= rates[1].limit

\* The calls that take a step of send().
Acting == {c \in AllThreads : call'[c] # call[c] /\ call'[c].started}

\* C16: a step of send() on key k (acquisition, wait, transport, fill)
\* changes no bucket but the one of k; and whether a send is passed to the
\* transport at once depends on the bucket of its own key only, so a bucket
\* filled after a limit response never delays a send on another key.
C16_OtherBucketsUntouched ==
  [][ /\ \A k \in DOMAIN bucket_group :
           /\ k \in DOMAIN bucket_group'
           /\ bucket_group'[k] # bucket_group[k]
                => \E c \in Acting : call'[c].key = k
      /\ \A k \in DOMAIN bucket_group' \ DOMAIN bucket_group :
           \E c \in Acting : call'[c].key = k
      /\ \A c \in Acting :
           call[c].pc = "idle"
             => ( call'[c].pc = "transport"
                    <=> try_acquire(Bucket(call'[c].key), now) = 0 )
    ]_vars

C16_Witness ==
  \E c \in Calls :
    /\ per_host
    /\ call[c].pc = "transport"
    /\ ~call[c].waited
    /\ \E k \in DOMAIN bucket_group :
         /\ k # call[c].key
         /\ ~NoFill(k)
         /\ try_acquire(Bucket(k), now) # 0

\* The rate arguments that are not zero.
NonZero ==
  {a \in {"per_second", "per_minute", "per_hour", "per_day", "per_month"} :
     kwargs[a] # 0}

HasRate(limit, interval) ==
  \E n \in 1..Len(rates) :
    rates[n].limit = limit /\ rates[n].interval = interval

\* C17: the constructor builds exactly one rate for each rate argument that
\* is not zero and none for one that is zero: per_second gives the limit
\* per_second * burst over burst seconds, and per_minute, per_hour, per_day
\* and per_month give their own limit over a minute, an hour, a day and a
\* month, whatever burst is.
C17_OneRatePerArgument ==
  kwargs.built =>
    /\ Len(rates) = Cardinality(NonZero)
    /\ \A n \in 1..Len(rates) : rates[n].limit # 0
    /\ kwargs.per_second # 0
         => HasRate(kwargs.per_second * kwargs.burst, SECOND * kwargs.burst)
    /\ kwargs.per_minute # 0 => HasRate(kwargs.per_minute, MINUTE)
    /\ kwargs.per_hour # 0 => HasRate(kwargs.per_hour, HOUR)
    /\ kwargs.per_day # 0 => HasRate(kwargs.per_day, DAY)
    /\ kwargs.per_month # 0 => HasRate(kwargs.per_month, MONTH)

\* The number of events of b stamped t.
Stamped(b, t) == Cardinality({n \in 1..Len(b) : b[n] = t})

\* C18: an admitted send leaves exactly one event in the bucket of its
\* key and nothing takes it back: while the transport runs and after it
\* has returned any response or raised, the bucket is what it was at the
\* admission, then that one event, then only fillers of the call's own
\* fill; and every invocation of the transport on a key still has its
\* event in the bucket of that key.
C18_AcquiredNeverReleased ==
  /\ \A c \in Calls :
       call[c].invoked = 1
         => LET b == Bucket(call[c].key)
                own == Append(call[c].admit_pre, call[c].admit_at)
            IN  /\ Len(b) >= Len(own)
                /\ SubSeq(b, 1, Len(own)) = own
                /\ \A n \in (Len(own) + 1)..Len(b) :
                     call[c].fill_ran /\ b[n] = call[c].fill_now
  /\ \A k \in DOMAIN wire :
       \A n \in 1..Len(wire[k]) :
         Stamped(Bucket(k), wire[k][n]) >= Stamped(wire[k], wire[k][n])

C18_Witness ==
  \E c \in Calls :
    /\ call[c].pc = "done"
    /\ call[c].error \in TransportErrors
    /\ call[c].admit_pre # <<>>
    /\ NoFill(call[c].key)
    /\ try_acquire(Bucket(call[c].key), now) # 0
====
